---- MODULE Spec2Model ----
(***************************************************************************)
(* Model of pkg/vex/vex.go (wolfictl): derivation of VEX statements from a *)
(* melange build configuration (secfixes + advisories), their              *)
(* reconciliation, the content-derived document identifier, the assembly   *)
(* of the merged document, and the extraction of product purls from an     *)
(* SBOM.                                                                   *)
(***************************************************************************)
EXTENDS Integers, Sequences, FiniteSets, TLC

VARIABLES
    cfg,                \* statementsFromConfiguration: the *build.Configuration
    purls,              \* ... its purls argument
    documentTimestamp,  \* ... its documentTimestamp argument (<<>> before the call)
    statements,         \* ... its result
    called,             \* ... has the call returned
    secfixes,           \* statementsFromSecfixes: the build.Secfixes map
    secPurls,           \* ... its purls argument
    secIter,            \* ... the (version, vulnerability) pairs in the order the map was ranged over
    stmts,              \* ... its result
    secDone,            \* ... has the call returned
    buildCfg,           \* FromPackageConfiguration: the variadic batch
    pc,                 \* ... position in the function body
    id,                 \* ... id returned by generateDocumentID
    err,                \* ... the error value ("" is nil)
    docs,               \* ... sub-documents built so far
    docPurls,           \* ... purls computed for each sub-document
    mergeCalls,         \* ... number of calls of vexctl.Merge
    doc,                \* ... returned document (<<>> is nil, <<d>> a pointer to d)
    sbom,               \* extractSBOMPurls: the SPDX document (sequence of packages)
    parsed,             \* ... locators handed to purl.FromString, in order
    sbomPurls,          \* ... returned slice (<<>> is nil, <<l>> the slice l)
    sbomErr,            \* ... returned error ("" is nil)
    sbomDone            \* ... has the call returned

vars == <<cfg, purls, documentTimestamp, statements, called,
          secfixes, secPurls, secIter, stmts, secDone,
          buildCfg, pc, id, err, docs, docPurls, mergeCalls, doc,
          sbom, parsed, sbomPurls, sbomErr, sbomDone>>

reconcileVars == <<cfg, purls, documentTimestamp, statements, called>>
secfixesVars  == <<secfixes, secPurls, secIter, stmts, secDone>>
documentVars  == <<buildCfg, pc, id, err, docs, docPurls, mergeCalls, doc>>
sbomVars      == <<sbom, parsed, sbomPurls, sbomErr, sbomDone>>

----------------------------------------------------------------------------
(* Bounds of the model *)

\* total number of (version, vulnerability) entries of a secfixes map
MaxSecfixes == 2
\* total number of advisory records of an advisories map
MaxAdvisories == 2
\* number of configurations in a batch
MaxConfigs == 2
\* number of packages of an SBOM
MaxPackages == 2
\* number of external references of an SBOM, all packages together
MaxRefs == 3

----------------------------------------------------------------------------
(* Generic helpers *)

Range(s) == {s[i] : i \in DOMAIN s}

SeqsUpTo(S, lo, hi) == UNION {[1..n -> S] : n \in lo..hi}

\* all enumeration orders of a finite set (Go ranges over a map in an unspecified order)
Perms(S) == {p \in [1..Cardinality(S) -> S] : Range(p) = S}

RECURSIVE Concat(_)
Concat(ss) == IF ss = <<>> THEN <<>> ELSE Head(ss) \o Concat(Tail(ss))

RECURSIVE SumLen(_, _)
SumLen(f, D) ==
    IF D = {} THEN 0
    ELSE LET k == CHOOSE k \in D : TRUE IN Len(f[k]) + SumLen(f, D \ {k})

Count(s, x) == Cardinality({i \in DOMAIN s : s[i] = x})

\* the bytes of the strings that occur as map keys and identifiers (the
\* architectures and statuses cut to the bytes that tell them apart)
StringBytes(s) ==
    CASE s = ""      -> <<>>
      [] s = "0"     -> <<48>>
      [] s = "00"    -> <<48, 48>>
      [] s = "0.0"   -> <<48, 46, 48>>
      [] s = "1.2"   -> <<49, 46, 50>>
      [] s = "2.0"   -> <<50, 46, 48>>
      [] s = "CVE-1" -> <<67, 86, 69, 45, 49>>
      [] s = "CVE-2" -> <<67, 86, 69, 45, 50>>
      [] s = "foo"   -> <<102, 111, 111>>
      [] s = "bar"   -> <<98, 97, 114>>
      [] s = "x86_64"  -> <<120, 56, 54>>
      [] s = "aarch64" -> <<97, 54, 52>>
      [] s = "not_affected"        -> <<110>>
      [] s = "affected"            -> <<97>>
      [] s = "fixed"               -> <<102>>
      [] s = "under_investigation" -> <<117>>

\* strings.Compare(a, b) < 0 on byte strings
RECURSIVE LexLess(_, _)
LexLess(a, b) ==
    IF b = <<>> THEN FALSE
    ELSE IF a = <<>> THEN TRUE
    ELSE IF Head(a) # Head(b) THEN Head(a) < Head(b)
    ELSE LexLess(Tail(a), Tail(b))

----------------------------------------------------------------------------
(* vex.Status values *)

StatusNotAffected == "not_affected"
StatusAffected == "affected"
StatusFixed == "fixed"
StatusUnderInvestigation == "under_investigation"
Statuses == {StatusNotAffected, StatusAffected, StatusFixed, StatusUnderInvestigation}

Vulns == {"CVE-1", "CVE-2"}
Versions == {"0", "1.2", "2.0"}
Timestamps == {1, 2}

\* build.AdvisoryContent records drawn as inputs: every status at the earlier
\* timestamp, and at the later one the two statuses a secfixes statement can have
AdvisoryContents ==
    {[Status          |-> e[1],
      Justification   |-> IF e[1] = StatusNotAffected THEN "component_not_present" ELSE "",
      ActionStatement |-> IF e[1] = StatusAffected THEN "upgrade" ELSE "",
      ImpactStatement |-> "",
      Timestamp       |-> e[2]] :
        e \in (Statuses \X {1}) \cup ({StatusNotAffected, StatusFixed} \X {2})}

\* build.Secfixes maps: version -> list of vulnerability IDs
SecfixesMaps ==
    {m \in UNION {[D -> SeqsUpTo(Vulns, 1, MaxSecfixes)] : D \in SUBSET Versions} :
        SumLen(m, DOMAIN m) <= MaxSecfixes}

\* build.Advisories maps: vulnerability ID -> list of advisory records
AdvisoriesMaps ==
    {m \in UNION {[D -> SeqsUpTo(AdvisoryContents, 1, MaxAdvisories)] : D \in SUBSET Vulns} :
        SumLen(m, DOMAIN m) <= MaxAdvisories}

\* product identifiers of a package, as conf.PackageURLs returns them
ProductList ==
    <<[Type |-> "apk", Namespace |-> "wolfi", Name |-> "foo", Arch |-> "x86_64"],
      [Type |-> "apk", Namespace |-> "wolfi", Name |-> "foo", Arch |-> "aarch64"]>>

----------------------------------------------------------------------------
(* Statement builders *)

determineStatus_Prefix(packageVersion) ==
    IF packageVersion # "" /\ Head(StringBytes(packageVersion)) = 48
    THEN StatusNotAffected
    ELSE StatusFixed

determineStatus(packageVersion) ==
    IF packageVersion = "0" THEN StatusNotAffected ELSE StatusFixed

\* a nil *time.Time is <<>>, a pointer to t is <<t>>
statementFromSecfixesItem_NoProducts(pkgVersion, vulnerability, p) ==
    [Vulnerability   |-> vulnerability,
     Status          |-> determineStatus(pkgVersion),
     Justification   |-> "",
     ActionStatement |-> "",
     ImpactStatement |-> "",
     Products        |-> <<>>,
     Timestamp       |-> <<>>]

statementFromSecfixesItem(pkgVersion, vulnerability, p) ==
    [Vulnerability   |-> vulnerability,
     Status          |-> determineStatus(pkgVersion),
     Justification   |-> "",
     ActionStatement |-> "",
     ImpactStatement |-> "",
     Products        |-> p,
     Timestamp       |-> <<>>]

\* order: the order in which the range statement visits the map's keys
statementsFromSecfixes(sf, p, order) ==
    Concat([i \in 1..Len(order) |->
              [j \in 1..Len(sf[order[i]]) |->
                  statementFromSecfixesItem(order[i], sf[order[i]][j], p)]])

statementFromAdvisoryContent(content, vulnerability, p) ==
    [Vulnerability   |-> vulnerability,
     Status          |-> content.Status,
     Justification   |-> content.Justification,
     ActionStatement |-> content.ActionStatement,
     ImpactStatement |-> content.ImpactStatement,
     Products        |-> p,
     Timestamp       |-> <<content.Timestamp>>]

statementsFromAdvisories(advisories, p, order) ==
    Concat([i \in 1..Len(order) |->
              [j \in 1..Len(advisories[order[i]]) |->
                  statementFromAdvisoryContent(advisories[order[i]][j], order[i], p)]])

----------------------------------------------------------------------------
(* vex.SortStatements: stable, by status, then vulnerability ID, then       *)
(* timestamp, a statement without a timestamp taking the document's.        *)

StatusOrder == <<StatusNotAffected, StatusAffected, StatusFixed, StatusUnderInvestigation>>
StatusRank(s) == CHOOSE i \in DOMAIN StatusOrder : StatusOrder[i] = s

EffectiveTime(s, ts) == IF s.Timestamp = <<>> THEN ts ELSE s.Timestamp[1]

StatementLess(a, b, ts) ==
    IF a.Status # b.Status THEN StatusRank(a.Status) < StatusRank(b.Status)
    ELSE IF a.Vulnerability # b.Vulnerability
         THEN LexLess(StringBytes(a.Vulnerability), StringBytes(b.Vulnerability))
         ELSE EffectiveTime(a, ts) < EffectiveTime(b, ts)

\* x goes behind every element that is not greater than it (stability)
InsertStatement(sorted, x, ts) ==
    LET k == Cardinality({i \in DOMAIN sorted : ~StatementLess(x, sorted[i], ts)})
    IN  SubSeq(sorted, 1, k) \o <<x>> \o SubSeq(sorted, k + 1, Len(sorted))

RECURSIVE SortStatements(_, _)
SortStatements(ss, ts) ==
    IF ss = <<>> THEN <<>>
    ELSE InsertStatement(SortStatements(SubSeq(ss, 1, Len(ss) - 1), ts), ss[Len(ss)], ts)

----------------------------------------------------------------------------
(* Statement reconciler *)

\* vulnerability IDs with an advisory statement of status not_affected
notAffectedVulns(advisoriesStatements) ==
    {advisoriesStatements[i].Vulnerability :
        i \in {j \in DOMAIN advisoriesStatements :
                  advisoriesStatements[j].Status = StatusNotAffected}}

statementsFromConfiguration_NoFilter(c, ts, p, secOrder, advOrder) ==
    SortStatements(statementsFromSecfixes(c.Secfixes, p, secOrder)
                   \o statementsFromAdvisories(c.Advisories, p, advOrder), ts)

statementsFromConfiguration_OnlyNotAffected(c, ts, p, secOrder, advOrder) ==
    LET secfixesStatements   == statementsFromSecfixes(c.Secfixes, p, secOrder)
        advisoriesStatements == statementsFromAdvisories(c.Advisories, p, advOrder)
        seen == notAffectedVulns(advisoriesStatements)
        kept == SelectSeq(secfixesStatements,
                    LAMBDA s : ~(s.Vulnerability \in seen /\ s.Status = StatusNotAffected))
    IN  SortStatements(kept \o advisoriesStatements, ts)

statementsFromConfiguration_Dedup(c, ts, p, secOrder, advOrder) ==
    LET secfixesStatements   == statementsFromSecfixes(c.Secfixes, p, secOrder)
        advisoriesStatements == statementsFromAdvisories(c.Advisories, p, advOrder)
        seen == notAffectedVulns(advisoriesStatements)
        kept == SelectSeq(secfixesStatements, LAMBDA s : s.Vulnerability \notin seen)
        all  == kept \o advisoriesStatements
        uniq == SelectSeq([i \in DOMAIN all |-> <<i, all[i]>>],
                    LAMBDA e : \A j \in 1..(e[1] - 1) : all[j] # e[2])
    IN  SortStatements([i \in DOMAIN uniq |-> uniq[i][2]], ts)

statementsFromConfiguration_NoSort(c, ts, p, secOrder, advOrder) ==
    LET secfixesStatements   == statementsFromSecfixes(c.Secfixes, p, secOrder)
        advisoriesStatements == statementsFromAdvisories(c.Advisories, p, advOrder)
        seen == notAffectedVulns(advisoriesStatements)
        kept == SelectSeq(secfixesStatements, LAMBDA s : s.Vulnerability \notin seen)
    IN  kept \o advisoriesStatements

statementsFromConfiguration(c, ts, p, secOrder, advOrder) ==
    LET secfixesStatements   == statementsFromSecfixes(c.Secfixes, p, secOrder)
        advisoriesStatements == statementsFromAdvisories(c.Advisories, p, advOrder)
        seen == notAffectedVulns(advisoriesStatements)
        kept == SelectSeq(secfixesStatements, LAMBDA s : s.Vulnerability \notin seen)
    IN  SortStatements(kept \o advisoriesStatements, ts)

----------------------------------------------------------------------------
(* Specification of one call of statementsFromConfiguration *)

InitReconcile ==
    /\ cfg \in [Secfixes : SecfixesMaps, Advisories : AdvisoriesMaps]
    /\ purls = ProductList
    /\ documentTimestamp = <<>>
    /\ statements = <<>>
    /\ called = FALSE

StatementsFromConfiguration ==
    /\ ~called
    /\ \E ts \in Timestamps,
          secOrder \in Perms(DOMAIN cfg.Secfixes),
          advOrder \in Perms(DOMAIN cfg.Advisories) :
            /\ documentTimestamp' = <<ts>>
            /\ statements' = statementsFromConfiguration(cfg, ts, purls, secOrder, advOrder)
    /\ called' = TRUE
    /\ UNCHANGED <<cfg, purls, secfixesVars, documentVars, sbomVars>>

----------------------------------------------------------------------------
(* Specification of one call of statementsFromSecfixes *)

\* version strings that resemble the sentinel "0"
SentinelLikeVersions == {"0", "00", "0.0", "1.2"}

SentinelLikeSecfixesMaps ==
    {m \in UNION {[D -> SeqsUpTo(Vulns, 1, MaxSecfixes)] : D \in SUBSET SentinelLikeVersions} :
        SumLen(m, DOMAIN m) <= MaxSecfixes}

InitSecfixes ==
    /\ secfixes \in SentinelLikeSecfixesMaps
    /\ secPurls \in {<<>>, ProductList}
    /\ secIter = <<>>
    /\ stmts = <<>>
    /\ secDone = FALSE

\* the (version, vulnerability) pairs the two nested loops visit
RangedOver(sf, order) ==
    Concat([i \in 1..Len(order) |->
              [j \in 1..Len(sf[order[i]]) |-> <<order[i], sf[order[i]][j]>>]])

StatementsFromSecfixes ==
    /\ ~secDone
    /\ \E order \in Perms(DOMAIN secfixes) :
          /\ secIter' = RangedOver(secfixes, order)
          /\ stmts' = statementsFromSecfixes(secfixes, secPurls, order)
    /\ secDone' = TRUE
    /\ UNCHANGED <<secfixes, secPurls, reconcileVars, documentVars, sbomVars>>

----------------------------------------------------------------------------
(* Document identity *)

vexCfg == [Distro |-> "wolfi", Author |-> "wolfictl", AuthorRole |-> "automation"]

\* the keys of a map in increasing byte order, as yaml.v3 emits them
SortedKeys(D) ==
    CHOOSE p \in Perms(D) :
        \A i \in 1..(Len(p) - 1) : LexLess(StringBytes(p[i]), StringBytes(p[i + 1]))

\* yaml.Marshal(c): the fields in declaration order, the maps in key order
Marshal(c) ==
    LET sk == SortedKeys(DOMAIN c.Secfixes)
        ak == SortedKeys(DOMAIN c.Advisories)
        vulnList(l) == Concat([j \in DOMAIN l |-> <<45>> \o StringBytes(l[j]) \o <<10>>])
        record(r) == <<45>> \o StringBytes(r.Status) \o <<48 + r.Timestamp, 10>>
    IN  StringBytes(c.Name) \o <<10>>
        \o Concat([i \in DOMAIN c.Archs |-> StringBytes(c.Archs[i]) \o <<10>>])
        \o Concat([i \in DOMAIN sk |->
                      StringBytes(sk[i]) \o <<58, 10>> \o vulnList(c.Secfixes[sk[i]])])
        \o Concat([i \in DOMAIN ak |->
                      StringBytes(ak[i]) \o <<58, 10>>
                      \o Concat([j \in DOMAIN c.Advisories[ak[i]] |->
                                    record(c.Advisories[ak[i]][j])])])

\* sha256 narrowed to an 8-bit digest: an order-sensitive fold over the bytes
RECURSIVE Sha256From(_, _)
Sha256From(h, data) ==
    IF data = <<>> THEN h
    ELSE Sha256From((h * 31 + Head(data)) % 256, Tail(data))

Sha256(data) == Sha256From(7, data)

\* fmt.Sprintf("%x", ...) of the digest: two lower-case hex characters
HexChar(d) == IF d < 10 THEN 48 + d ELSE 87 + d
Hex(h) == <<HexChar(h \div 16), HexChar(h % 16)>>

InsertString(sorted, x) ==
    LET k == Cardinality({i \in DOMAIN sorted : ~LexLess(x, sorted[i])})
    IN  SubSeq(sorted, 1, k) \o <<x>> \o SubSeq(sorted, k + 1, Len(sorted))

\* sort.Strings
RECURSIVE SortStrings(_)
SortStrings(ss) ==
    IF ss = <<>> THEN <<>>
    ELSE InsertString(SortStrings(SubSeq(ss, 1, Len(ss) - 1)), ss[Len(ss)])

\* strings.Join
RECURSIVE Join(_, _)
Join(ss, sep) ==
    IF ss = <<>> THEN <<>>
    ELSE IF Len(ss) = 1 THEN ss[1]
    ELSE ss[1] \o sep \o Join(Tail(ss), sep)

\* the per-configuration digest appended to hashes
ConfigHash(c) == Hex(Sha256(Marshal(c)))

generateDocumentID_NoSort(configs) ==
    IF \E i \in DOMAIN configs : ~configs[i].Marshalable
    THEN [id |-> <<>>, err |-> "marshaling melange configuration"]
    ELSE LET hashes == [i \in DOMAIN configs |-> ConfigHash(configs[i])]
         IN  [id  |-> <<118, 101, 120, 45>> \o Hex(Sha256(Join(hashes, <<58>>))),
              err |-> ""]

\* the id is the bytes of the string; the empty string comes with the error
generateDocumentID(configs) ==
    IF \E i \in DOMAIN configs : ~configs[i].Marshalable
    THEN [id |-> <<>>, err |-> "marshaling melange configuration"]
    ELSE LET hashes == [i \in DOMAIN configs |-> ConfigHash(configs[i])]
         IN  [id  |-> <<118, 101, 120, 45>> \o Hex(Sha256(Join(SortStrings(hashes), <<58>>))),
              err |-> ""]

----------------------------------------------------------------------------
(* Document assembly: FromPackageConfiguration *)

\* conf.PackageURLs(distro): one product identifier per target architecture
PackageURLs(conf, distro) ==
    [i \in DOMAIN conf.Archs |->
        [Type |-> "apk", Namespace |-> distro, Name |-> conf.Name, Arch |-> conf.Archs[i]]]

\* configurations of a batch; Marshalable is whether yaml.Marshal accepts it
Configurations ==
    [Name         : {"foo", "bar"},
     Archs        : {<<>>, <<"x86_64", "aarch64">>},
     Secfixes     : {[v \in {"0", "1.2"} |-> IF v = "0" THEN <<"CVE-1">> ELSE <<"CVE-2">>]},
     Advisories   : {[v \in {"CVE-1"} |-> <<[Status |-> StatusAffected, Justification |-> "",
                                             ActionStatement |-> "upgrade",
                                             ImpactStatement |-> "", Timestamp |-> 1]>>],
                     [v \in {"CVE-2"} |-> <<[Status |-> StatusNotAffected,
                                             Justification |-> "component_not_present",
                                             ActionStatement |-> "",
                                             ImpactStatement |-> "", Timestamp |-> 2]>>]},
     Marshalable  : BOOLEAN]

InitDocument ==
    /\ buildCfg \in SeqsUpTo(Configurations, 0, MaxConfigs)
    /\ pc = "generateDocumentID"
    /\ id = <<>>
    /\ err = ""
    /\ docs = <<>>
    /\ docPurls = <<>>
    /\ mergeCalls = 0
    /\ doc = <<>>

GenerateDocumentID_IgnoreError ==
    /\ pc = "generateDocumentID"
    /\ LET r == generateDocumentID(buildCfg)
       IN  /\ id' = r.id
           /\ pc' = "loop"
           /\ err' = err
    /\ UNCHANGED <<buildCfg, docs, docPurls, mergeCalls, doc, reconcileVars, secfixesVars, sbomVars>>

\* lines 29-32: id, err := generateDocumentID(buildCfg); return nil, err on failure
GenerateDocumentID ==
    /\ pc = "generateDocumentID"
    /\ LET r == generateDocumentID(buildCfg)
       IN  /\ id' = r.id
           /\ IF r.err # ""
              THEN /\ err' = "generating doc ID"
                   /\ pc' = "return"
              ELSE /\ err' = err
                   /\ pc' = "loop"
    /\ UNCHANGED <<buildCfg, docs, docPurls, mergeCalls, doc, reconcileVars, secfixesVars, sbomVars>>

\* lines 35-40: one iteration of the loop over buildCfg
BuildSubdocument ==
    /\ pc = "loop"
    /\ Len(docs) < Len(buildCfg)
    /\ LET conf == buildCfg[Len(docs) + 1]
           p    == PackageURLs(conf, vexCfg.Distro)
       IN  \E ts \in Timestamps,
              secOrder \in Perms(DOMAIN conf.Secfixes),
              advOrder \in Perms(DOMAIN conf.Advisories) :
                /\ docs' = Append(docs,
                      [Timestamp  |-> ts,
                       Statements |-> statementsFromConfiguration(conf, ts, p, secOrder, advOrder)])
                /\ docPurls' = Append(docPurls, p)
    /\ UNCHANGED <<buildCfg, pc, id, err, mergeCalls, doc, reconcileVars, secfixesVars, sbomVars>>

\* lines 42-53: the merge call, which the collaborator may reject
Merge ==
    /\ pc = "loop"
    /\ Len(docs) = Len(buildCfg)
    /\ mergeCalls' = mergeCalls + 1
    /\ pc' = "return"
    /\ \/ /\ doc' = <<[ID         |-> id,
                       Author     |-> vexCfg.Author,
                       AuthorRole |-> vexCfg.AuthorRole,
                       Statements |-> Concat([i \in DOMAIN docs |-> docs[i].Statements])]>>
          /\ err' = err
       \/ /\ doc' = <<>>
          /\ err' = "merging vex documents"
    /\ UNCHANGED <<buildCfg, id, docs, docPurls, reconcileVars, secfixesVars, sbomVars>>

----------------------------------------------------------------------------
(* Products of an SBOM: extractSBOMPurls *)

\* a locator is the text scheme:seg/seg/...@version, kept in its parts
LocWolfiFoo  == [Scheme |-> "pkg", Segs |-> <<"apk", "wolfi", "foo">>, Version |-> "1.2"]
LocWolfiBar  == [Scheme |-> "pkg", Segs |-> <<"apk", "wolfi", "bar">>, Version |-> "1.2"]
LocAlpineFoo == [Scheme |-> "pkg", Segs |-> <<"apk", "alpine", "foo">>, Version |-> "1.2"]
LocNoName    == [Scheme |-> "pkg", Segs |-> <<"apk">>, Version |-> ""]
LocCPE       == [Scheme |-> "cpe", Segs |-> <<"2.3:a:foo">>, Version |-> ""]

\* spdx.ExternalRef values drawn as inputs
ExternalRefs ==
    {[Type |-> "purl", Locator |-> LocWolfiFoo],
     [Type |-> "purl", Locator |-> LocWolfiBar],
     [Type |-> "purl", Locator |-> LocAlpineFoo],
     [Type |-> "purl", Locator |-> LocNoName],
     [Type |-> "cpe23Type", Locator |-> LocCPE],
     [Type |-> "cpe23Type", Locator |-> LocWolfiFoo]}

\* purl.FromString: the scheme must be pkg, a type and a name must be present;
\* the segments between type and name are the namespace
FromString(loc) ==
    IF loc.Scheme # "pkg"
    THEN [err |-> "purl scheme is not \"pkg\"", purl |-> <<>>]
    ELSE IF Len(loc.Segs) < 2
    THEN [err |-> "purl is missing type or name", purl |-> <<>>]
    ELSE [err  |-> "",
          purl |-> <<[Type      |-> loc.Segs[1],
                      Namespace |-> IF Len(loc.Segs) > 2 THEN loc.Segs[2] ELSE "",
                      Name      |-> loc.Segs[Len(loc.Segs)],
                      Version   |-> loc.Version]>>]

\* the external references in the order the two nested loops visit them
AllRefs(s) == Concat([i \in DOMAIN s |-> s[i].ExternalRefs])

\* the loop body from reference k on; acc is purls, seen the locators parsed so far
RECURSIVE extractFrom_Partial(_, _, _, _, _)
extractFrom_Partial(c, refs, k, acc, seen) ==
    IF k > Len(refs) THEN [purls |-> <<acc>>, err |-> "", parsed |-> seen]
    ELSE IF refs[k].Type # "purl" THEN extractFrom_Partial(c, refs, k + 1, acc, seen)
    ELSE LET r == FromString(refs[k].Locator)
             s == Append(seen, refs[k].Locator)
         IN  IF r.err # "" THEN [purls |-> <<acc>>, err |-> "parsing purl", parsed |-> s]
             ELSE IF r.purl[1].Namespace = c.Distro
                  THEN extractFrom_Partial(c, refs, k + 1, Append(acc, r.purl[1]), s)
                  ELSE extractFrom_Partial(c, refs, k + 1, acc, s)

RECURSIVE extractFrom(_, _, _, _, _)
extractFrom(c, refs, k, acc, seen) ==
    IF k > Len(refs) THEN [purls |-> <<acc>>, err |-> "", parsed |-> seen]
    ELSE IF refs[k].Type # "purl" THEN extractFrom(c, refs, k + 1, acc, seen)
    ELSE LET r == FromString(refs[k].Locator)
             s == Append(seen, refs[k].Locator)
         IN  IF r.err # "" THEN [purls |-> <<>>, err |-> "parsing purl", parsed |-> s]
             ELSE IF r.purl[1].Namespace = c.Distro
                  THEN extractFrom(c, refs, k + 1, Append(acc, r.purl[1]), s)
                  ELSE extractFrom(c, refs, k + 1, acc, s)

extractSBOMPurls_Partial(c, s) == extractFrom_Partial(c, AllRefs(s), 1, <<>>, <<>>)

\* purls: <<>> is the nil slice, <<l>> the slice l
extractSBOMPurls(c, s) == extractFrom(c, AllRefs(s), 1, <<>>, <<>>)

\* a sequence cut into consecutive pieces of the given sizes
RECURSIVE Split(_, _)
Split(flat, sizes) ==
    IF sizes = <<>> THEN <<>>
    ELSE <<[ExternalRefs |-> SubSeq(flat, 1, Head(sizes))]>>
         \o Split(SubSeq(flat, Head(sizes) + 1, Len(flat)), Tail(sizes))

RECURSIVE Sum(_)
Sum(s) == IF s = <<>> THEN 0 ELSE Head(s) + Sum(Tail(s))

\* SPDX documents of at most MaxPackages packages and MaxRefs references in all
SBOMs ==
    {Split(flat, sizes) :
        <<flat, sizes>> \in
            {fs \in SeqsUpTo(ExternalRefs, 0, MaxRefs) \X SeqsUpTo(0..MaxRefs, 0, MaxPackages) :
                Sum(fs[2]) = Len(fs[1])}}

InitSBOM ==
    /\ sbom \in SBOMs
    /\ parsed = <<>>
    /\ sbomPurls = <<>>
    /\ sbomErr = ""
    /\ sbomDone = FALSE

ExtractSBOMPurls ==
    /\ ~sbomDone
    /\ LET r == extractSBOMPurls(vexCfg, sbom)
       IN  /\ sbomPurls' = r.purls
           /\ sbomErr' = r.err
           /\ parsed' = r.parsed
    /\ sbomDone' = TRUE
    /\ UNCHANGED <<sbom, reconcileVars, secfixesVars, documentVars>>

----------------------------------------------------------------------------
(* Specifications: each one exercises one entry point, the state of the     *)
(* others resting in its initial value.                                     *)

IdleReconcile ==
    /\ cfg = [Secfixes |-> <<>>, Advisories |-> <<>>]
    /\ purls = <<>>
    /\ documentTimestamp = <<>>
    /\ statements = <<>>
    /\ called = FALSE

IdleSecfixes ==
    /\ secfixes = <<>>
    /\ secPurls = <<>>
    /\ secIter = <<>>
    /\ stmts = <<>>
    /\ secDone = FALSE

IdleDocument ==
    /\ buildCfg = <<>>
    /\ pc = "idle"
    /\ id = <<>>
    /\ err = ""
    /\ docs = <<>>
    /\ docPurls = <<>>
    /\ mergeCalls = 0
    /\ doc = <<>>

IdleSBOM ==
    /\ sbom = <<>>
    /\ parsed = <<>>
    /\ sbomPurls = <<>>
    /\ sbomErr = ""
    /\ sbomDone = TRUE

\* statementsFromConfiguration on every configuration within the bounds
Init == InitReconcile /\ IdleSecfixes /\ IdleDocument /\ IdleSBOM
Next == StatementsFromConfiguration
Spec == Init /\ [][Next]_vars

\* statementsFromSecfixes on every secfixes map within the bounds
SecfixesInit == IdleReconcile /\ InitSecfixes /\ IdleDocument /\ IdleSBOM
SecfixesNext == StatementsFromSecfixes
SpecSecfixes == SecfixesInit /\ [][SecfixesNext]_vars

\* FromPackageConfiguration on every batch within the bounds
DocumentInit == IdleReconcile /\ IdleSecfixes /\ InitDocument /\ IdleSBOM
DocumentNext == GenerateDocumentID \/ BuildSubdocument \/ Merge
SpecDocument == DocumentInit /\ [][DocumentNext]_vars

\* extractSBOMPurls on every SBOM within the bounds
SBOMInit == IdleReconcile /\ IdleSecfixes /\ IdleDocument /\ InitSBOM
SBOMNext == ExtractSBOMPurls
SpecSBOM == SBOMInit /\ [][SBOMNext]_vars

----------------------------------------------------------------------------
(* Properties of statementsFromConfiguration (Spec) *)

\* a statement built from secfixes has no timestamp; one built from an advisory has
SecfixesSourced(s) == s.Timestamp = <<>>

\* the (version, index) places of the secfixes map, the (vulnerability, index) of advisories
SecfixesEntries == {e \in (DOMAIN cfg.Secfixes) \X (1..MaxSecfixes) : e[2] <= Len(cfg.Secfixes[e[1]])}
AdvisoryEntries == {e \in (DOMAIN cfg.Advisories) \X (1..MaxAdvisories) : e[2] <= Len(cfg.Advisories[e[1]])}

\* vulnerability IDs with at least one advisory record of status not_affected
SuppressionSet ==
    {e[1] : e \in {a \in AdvisoryEntries : cfg.Advisories[a[1]][a[2]].Status = StatusNotAffected}}

\* the statement an advisory record is to become
AdvisoryStatement(e) ==
    LET r == cfg.Advisories[e[1]][e[2]]
    IN  [Vulnerability |-> e[1], Status |-> r.Status, Justification |-> r.Justification,
         ActionStatement |-> r.ActionStatement, ImpactStatement |-> r.ImpactStatement,
         Products |-> purls, Timestamp |-> <<r.Timestamp>>]

\* the statement a secfixes entry is to become
LegacyStatement(e) ==
    [Vulnerability |-> cfg.Secfixes[e[1]][e[2]],
     Status |-> IF e[1] = "0" THEN StatusNotAffected ELSE StatusFixed,
     Justification |-> "", ActionStatement |-> "", ImpactStatement |-> "",
     Products |-> purls, Timestamp |-> <<>>]

StatementsFor(V) == {i \in DOMAIN statements : statements[i].Vulnerability = V}

\* C1: if some advisory record of V has status not_affected, the reconciled output
\* holds no secfixes-sourced not_affected statement for V, and it holds one
\* statement for every advisory record of V, whatever the record's status.
C1_SuppressionCorrect ==
    called =>
        \A V \in SuppressionSet :
            /\ ~\E i \in StatementsFor(V) :
                    SecfixesSourced(statements[i]) /\ statements[i].Status = StatusNotAffected
            /\ Cardinality({i \in StatementsFor(V) : ~SecfixesSourced(statements[i])})
                  = Len(cfg.Advisories[V])
            /\ \A e \in {a \in AdvisoryEntries : a[1] = V} :
                  Count(statements, AdvisoryStatement(e))
                     = Cardinality({a \in AdvisoryEntries : AdvisoryStatement(a) = AdvisoryStatement(e)})

\* V is listed under "0", one of its two advisory records is not_affected, the other is not
C1_Witness ==
    /\ called
    /\ \E V \in SuppressionSet :
          /\ "0" \in DOMAIN cfg.Secfixes /\ V \in Range(cfg.Secfixes["0"])
          /\ \E i \in DOMAIN cfg.Advisories[V] : cfg.Advisories[V][i].Status = StatusAffected
          /\ Cardinality(StatementsFor(V)) = 2

\* C2: with V listed under version "0" and exactly one advisory record for V, of
\* status affected, the reconciled output holds exactly one statement for V, of
\* status affected.
C2_ScenarioB ==
    called =>
        \A V \in Vulns :
            ( /\ "0" \in DOMAIN cfg.Secfixes /\ V \in Range(cfg.Secfixes["0"])
              /\ V \in DOMAIN cfg.Advisories
              /\ Len(cfg.Advisories[V]) = 1
              /\ cfg.Advisories[V][1].Status = StatusAffected )
            => /\ Cardinality(StatementsFor(V)) = 1
               /\ \A i \in StatementsFor(V) : statements[i].Status = StatusAffected

ExpectedCount(x) ==
    Cardinality({e \in SecfixesEntries :
                    cfg.Secfixes[e[1]][e[2]] \notin SuppressionSet /\ LegacyStatement(e) = x})
    + Cardinality({e \in AdvisoryEntries : AdvisoryStatement(e) = x})

C10_NoDeduplication ==
    called =>
        \A V \in Vulns \ SuppressionSet :
            Cardinality({i \in StatementsFor(V) : SecfixesSourced(statements[i])})
               = Cardinality({e \in SecfixesEntries : cfg.Secfixes[e[1]][e[2]] = V})

\* V is listed under two versions other than "0": two identical fixed statements
C10_Witness ==
    /\ called
    /\ \E V \in Vulns \ SuppressionSet :
          /\ Cardinality({e \in SecfixesEntries : e[1] # "0" /\ cfg.Secfixes[e[1]][e[2]] = V}) = 2
          /\ \E i, j \in StatementsFor(V) :
                i # j /\ statements[i] = statements[j] /\ statements[i].Status = StatusFixed

----------------------------------------------------------------------------
(* Properties of statementsFromSecfixes (SpecSecfixes) *)

\* C3: the statement built for the entry (version, vulnerability) is not_affected
\* exactly when version is "0" and fixed otherwise, and it carries no
\* justification, no impact or action text and no timestamp.
C3_StatusDerivation ==
    secDone =>
        /\ Len(stmts) = Len(secIter)
        /\ \A i \in DOMAIN stmts :
              /\ stmts[i].Vulnerability = secIter[i][2]
              /\ (stmts[i].Status = StatusNotAffected) <=> (secIter[i][1] = "0")
              /\ (secIter[i][1] # "0") => (stmts[i].Status = StatusFixed)
              /\ stmts[i].Status \notin {StatusAffected, StatusUnderInvestigation}
              /\ stmts[i].Justification = ""
              /\ stmts[i].ActionStatement = ""
              /\ stmts[i].ImpactStatement = ""
              /\ stmts[i].Timestamp = <<>>

\* the map lists a vulnerability under "0" and one under a version that resembles it
C3_Witness ==
    /\ secDone
    /\ \E i, j \in DOMAIN stmts :
          /\ secIter[i][1] = "0" /\ stmts[i].Status = StatusNotAffected
          /\ secIter[j][1] \in {"00", "0.0"} /\ stmts[j].Status = StatusFixed

----------------------------------------------------------------------------
(* Properties of FromPackageConfiguration and generateDocumentID (SpecDocument) *)

Permuted(s, p) == [i \in DOMAIN s |-> s[p[i]]]

\* C4: the identifier returned for the batch is the one returned for every
\* permutation of the batch.
C4_OrderIndependentID ==
    (pc # "generateDocumentID") =>
        \A p \in Perms(DOMAIN buildCfg) :
            generateDocumentID(Permuted(buildCfg, p)).id = id

\* an identifier was made for a batch whose digests arrive in decreasing order
C4_Witness ==
    /\ pc = "loop"
    /\ id # <<>>
    /\ Len(buildCfg) >= 2
    /\ LexLess(ConfigHash(buildCfg[2]), ConfigHash(buildCfg[1]))

\* C5: every statement of a package's sub-document has as its products the full
\* list computed for that package, so none has an empty list when that list is
\* not empty.
C5_FullProductList ==
    \A i \in DOMAIN docs :
        /\ docPurls[i] = PackageURLs(buildCfg[i], vexCfg.Distro)
        /\ \A k \in DOMAIN docs[i].Statements :
              /\ docs[i].Statements[k].Products = docPurls[i]
              /\ (docPurls[i] # <<>>) => (docs[i].Statements[k].Products # <<>>)

\* a sub-document with a secfixes-sourced and an advisory-sourced statement in
\* a package of two product identifiers
C5_Witness ==
    \E i \in DOMAIN docs :
        /\ Len(docPurls[i]) = 2
        /\ \E k \in DOMAIN docs[i].Statements : docs[i].Statements[k].Timestamp = <<>>
        /\ \E k \in DOMAIN docs[i].Statements : docs[i].Statements[k].Timestamp # <<>>

IdentityFails == \E i \in DOMAIN buildCfg : ~buildCfg[i].Marshalable

\* C6: when the identity cannot be generated, an error and no document are
\* returned, no sub-document is built and the merge is not called; when the merge
\* fails, an error and no document are returned; a document is returned only
\* when both succeeded.
C6_NoPartialSuccess ==
    /\ IdentityFails => (docs = <<>> /\ mergeCalls = 0 /\ doc = <<>>)
    /\ (pc = "return" /\ IdentityFails) => (err = "generating doc ID")
    /\ (err = "merging vex documents") => (pc = "return" /\ doc = <<>>)
    /\ (doc # <<>>) =>
          /\ pc = "return"
          /\ err = ""
          /\ ~IdentityFails
          /\ mergeCalls = 1
          /\ doc[1].ID = id /\ id # <<>>
    /\ (pc = "return") => ((doc = <<>>) <=> (err # ""))

\* the call returned the identity error for a batch whose first configuration
\* would have given statements
C6_Witness ==
    /\ pc = "return"
    /\ err = "generating doc ID"
    /\ Len(buildCfg) = 2
    /\ buildCfg[1].Marshalable /\ ~buildCfg[2].Marshalable

----------------------------------------------------------------------------
(* Properties of extractSBOMPurls (SpecSBOM) *)

PurlRefs == SelectSeq(AllRefs(sbom), LAMBDA r : r.Type = "purl")
PurlLocators == [i \in DOMAIN PurlRefs |-> PurlRefs[i].Locator]
AllParse == \A i \in DOMAIN PurlLocators : FromString(PurlLocators[i]).err = ""

\* the parsed purl-typed references of the distro's namespace, in SBOM order
DistroPurls ==
    LET ok == SelectSeq(PurlLocators,
                  LAMBDA l : FromString(l).err = ""
                             /\ FromString(l).purl[1].Namespace = vexCfg.Distro)
    IN  [i \in DOMAIN ok |-> FromString(ok[i]).purl[1]]

\* C7: only purl-typed references are parsed; when all of them parse, the result
\* is the sequence, in SBOM order, of those whose namespace is the distro; when
\* one does not parse, an error and no product list are returned.
C7_ExtractSBOMPurls ==
    sbomDone =>
        /\ Len(parsed) <= Len(PurlLocators)
        /\ parsed = SubSeq(PurlLocators, 1, Len(parsed))
        /\ AllParse => (sbomErr = "" /\ sbomPurls = <<DistroPurls>>)
        /\ ~AllParse => (sbomErr # "" /\ sbomPurls = <<>>)

\* a malformed reference of another type came first and was skipped, a product
\* was collected, then a purl-typed locator failed to parse
C7_Witness ==
    /\ sbomDone
    /\ sbomErr # ""
    /\ Len(AllRefs(sbom)) = 3
    /\ AllRefs(sbom)[1] = [Type |-> "cpe23Type", Locator |-> LocCPE]
    /\ AllRefs(sbom)[2] = [Type |-> "purl", Locator |-> LocWolfiFoo]
    /\ parsed = <<LocWolfiFoo, LocNoName>>

====
